---------------------------- MODULE Spec2Model ----------------------------
(***************************************************************************)
(* Model of center_of_lane_detection.py: segment classification, the       *)
(* greedy slope grouper, the lane-center estimator, the steering-angle     *)
(* formula and the per-frame loop of main.                                 *)
(*                                                                         *)
(* Numbers.  Python computes slopes, centers and angles in float64.  The   *)
(* model computes them as exact rationals <<n, d>> in lowest terms with    *)
(* d > 0.  On the segments of SegPool the float comparisons of the code    *)
(* (slope order, |ds| < 0.3, sqrt(..) < 90) decide exactly as the rational *)
(* ones do: no two slopes of the pool differ by exactly 3/10, and the      *)
(* squared midpoint distances are multiples of 1/4 far from 8100.          *)
(* line_length = sqrt(dx^2 + dy^2) is only ever compared (max by length),  *)
(* so the tuple carries dx^2 + dy^2, which orders the same way.            *)
(***************************************************************************)
EXTENDS Integers, Sequences, FiniteSets

VARIABLES
    pc,               \* position of main: "read", "detect", "steer", "draw", "show", "done",
                      \* or "TypeError" when an uncaught exception has ended it
    lines,            \* cv2.HoughLinesP result of the current frame: NoLines or a sequence of segments
    image_height,     \* image.shape[0] of the current frame
    positive_slopes,  \* detect_lane_center locals, as they stand when it returns
    negative_slopes,
    positive_groups,
    negative_groups,
    points,
    center_lane,      \* <<center_lane_x, center_lane_y>> returned by detect_lane_center
    steering_angle,   \* value returned by calculate_steering_angle
    drawn_center,     \* pixel handed to cv2.circle by draw_center_point
    sw, sx, sm, sa    \* calculate_steering_angle called on its own: width, center x, max angle, result

vars == <<pc, lines, image_height, positive_slopes, negative_slopes,
          positive_groups, negative_groups, points, center_lane, steering_angle,
          drawn_center, sw, sx, sm, sa>>

\* Python's None where a number is expected: the empty tuple, which no rational
\* <<n, d>> and no pixel <<x, y>> equals
None == <<>>

\* lines = None, cv2.HoughLinesP's answer when it finds no segment: a value that
\* no list of segments <<x1, y1, x2, y2>> equals, the empty list included
NoLines == << <<>> >>

-----------------------------------------------------------------------------
(* Bounds of the model *)

MaxLen == 3        \* segments per frame
MaxWidth == 4      \* small image widths tried with calculate_steering_angle

(* Constants of the program *)

SlopeTolNum == 3          \* 0.3 = 3/10
SlopeTolDen == 10
CenterTol == 90
SpreadMin == 400
image_width == 315
max_steering_angle == 70

-----------------------------------------------------------------------------
(* Exact rationals *)

Abs(n) == IF n < 0 THEN -n ELSE n

RECURSIVE GCD(_, _)
GCD(a, b) == IF b = 0 THEN a ELSE GCD(b, a % b)

Rat(n, d) ==
    LET g == GCD(Abs(n), Abs(d))
        s == IF d < 0 THEN -1 ELSE 1
    IN  <<(s * n) \div g, (s * d) \div g>>

RatInt(n) == <<n, 1>>
RatLess(a, b) == a[1] * b[2] < b[1] * a[2]
RatLeq(a, b) == a[1] * b[2] <= b[1] * a[2]
RatSub(a, b) == Rat(a[1] * b[2] - b[1] * a[2], a[2] * b[2])
RatMul(a, b) == Rat(a[1] * b[1], a[2] * b[2])
RatDiv(a, b) == Rat(a[1] * b[2], a[2] * b[1])
RatAbs(a) == <<Abs(a[1]), a[2]>>

-----------------------------------------------------------------------------
(* Inputs: the segments cv2.HoughLinesP may report, <<x1, y1, x2, y2>> *)

SegPool ==
    { <<400, 500, 300, 100>>,   \* slope 4
      <<0, 100, 100, 500>>,     \* slope 4
      <<0, 450, 450, 0>>,       \* slope -1, x from 0 to 450
      <<100, 200, 200, 100>>,   \* slope -1
      <<100, 100, 108, 108>>,   \* slope 1
      <<130, 139, 138, 149>>,   \* slope 1.25, midpoint 50 from the one above
      <<195, 99, 203, 109>>,    \* slope 1.25, midpoint 95 from the slope 1 one
      <<140, 150, 148, 162>>,   \* slope 1.5
      <<0, 0, 450, 450>>,       \* slope 1, x from 0 to 450
      <<50, 0, 50, 100>>,       \* vertical
      <<0, 50, 100, 50>> }      \* slope 0

SeqsUpTo(S, n) == UNION { [1..k -> S] : k \in 0..n }

LineInputs == {NoLines} \cup SeqsUpTo(SegPool, MaxLen)

ImageHeights == {480, 600}

-----------------------------------------------------------------------------
(* Segment classification: detect_lane_center, the loop over lines.  A     *)
(* classified segment is the tuple <<slope_line, line_length, line>>.      *)

\* a faulty variant of slope_line: the run taken without its sign
slope_line_mut(line) == Rat(line[4] - line[2], Abs(line[3] - line[1]))

slope_line(line) == Rat(line[4] - line[2], line[3] - line[1])

line_length(line) ==
    (line[3] - line[1]) * (line[3] - line[1]) + (line[4] - line[2]) * (line[4] - line[2])

has_slope(line) == line[3] - line[1] # 0

\* a faulty variant of is_positive: slope zero counts as positive
is_positive_mut(line) == has_slope(line) /\ slope_line(line)[1] >= 0

is_positive(line) == has_slope(line) /\ slope_line(line)[1] > 0

is_negative(line) == has_slope(line) /\ slope_line(line)[1] < 0

classified(sel) == [i \in 1..Len(sel) |-> <<slope_line(sel[i]), line_length(sel[i]), sel[i]>>]

positive_of(ls) == classified(SelectSeq(ls, is_positive))

negative_of(ls) == classified(SelectSeq(ls, is_negative))

-----------------------------------------------------------------------------
(* group_lines *)

\* a faulty variant of lines_sorted: the list as it came
unsorted(ls) == ls

\* a faulty variant of insert_sorted: x goes before the elements of equal slope
insert_unstable(s, x) ==
    LET k == Cardinality({i \in 1..Len(s) : RatLess(s[i][1], x[1])})
    IN  SubSeq(s, 1, k) \o <<x>> \o SubSeq(s, k + 1, Len(s))

\* where sorted(), which is stable, puts x when s holds the elements before x
\* already sorted: behind every element whose slope is not greater
insert_sorted(s, x) ==
    LET k == Cardinality({i \in 1..Len(s) : RatLeq(s[i][1], x[1])})
    IN  SubSeq(s, 1, k) \o <<x>> \o SubSeq(s, k + 1, Len(s))

RECURSIVE stable_sort(_)
stable_sort(ls) ==
    IF ls = <<>> THEN <<>>
    ELSE insert_sorted(stable_sort(SubSeq(ls, 1, Len(ls) - 1)), ls[Len(ls)])

\* lines_sorted = sorted(lines, key=lambda x: x[0])
lines_sorted(ls) == stable_sort(ls)

\* abs(lines_sorted[i][0] - current_group[-1][0]) < 0.3
slope_close(new, cur) ==
    RatLess(RatAbs(RatSub(new[1], cur[1])), Rat(SlopeTolNum, SlopeTolDen))

\* np.sqrt((cx_cur - cx_new) ** 2 + (cy_cur - cy_new) ** 2) < 90, with the
\* midpoints doubled: (2 dcx)^2 + (2 dcy)^2 < 4 * 90^2
centers_close(new, cur) ==
    LET dx2 == (cur[3][1] + cur[3][3]) - (new[3][1] + new[3][3])
        dy2 == (cur[3][2] + cur[3][4]) - (new[3][2] + new[3][4])
    IN  dx2 * dx2 + dy2 * dy2 < 4 * CenterTol * CenterTol

\* a faulty variant of chain_last: the first member of the group
chain_head(current_group) == current_group[1]

\* current_group[-1], the member the next line is compared with
chain_last(current_group) == current_group[Len(current_group)]

RECURSIVE group_loop(_, _, _, _)
group_loop(ls, i, grouped_lines, current_group) ==
    IF i > Len(ls) THEN Append(grouped_lines, current_group)
    ELSE IF slope_close(ls[i], chain_last(current_group))
         THEN IF centers_close(ls[i], chain_last(current_group))
              THEN group_loop(ls, i + 1, grouped_lines, Append(current_group, ls[i]))
              ELSE group_loop(ls, i + 1, Append(grouped_lines, current_group), <<ls[i]>>)
         ELSE group_loop(ls, i + 1, Append(grouped_lines, current_group), <<ls[i]>>)

group_lines(ls) ==
    IF ls = <<>> THEN <<>>
    ELSE LET s == lines_sorted(ls) IN group_loop(s, 2, <<>>, <<s[1]>>)

-----------------------------------------------------------------------------
(* detect_lane_center: the lane-center estimate *)

RECURSIVE flatten(_)
flatten(groups) ==
    IF groups = <<>> THEN <<>> ELSE groups[1] \o flatten(Tail(groups))

\* [x for line in lines for x in line[2].reshape(4)[::2]]
x_coords_of(members) ==
    [i \in 1..(2 * Len(members)) |->
        members[(i + 1) \div 2][3][IF i % 2 = 1 THEN 1 ELSE 3]]

SeqMax(xs) == CHOOSE m \in {xs[i] : i \in 1..Len(xs)} : \A i \in 1..Len(xs) : xs[i] <= m

SeqMin(xs) == CHOOSE m \in {xs[i] : i \in 1..Len(xs)} : \A i \in 1..Len(xs) : xs[i] >= m

\* a faulty variant of wide_enough: a span of exactly 400 passes
wide_enough_mut(x_coords) ==
    Len(x_coords) > 1 /\ SeqMax(x_coords) - SeqMin(x_coords) >= SpreadMin

\* len(x_coords) > 1 and (max(x_coords) - min(x_coords)) > 400
wide_enough(x_coords) ==
    Len(x_coords) > 1 /\ SeqMax(x_coords) - SeqMin(x_coords) > SpreadMin

\* the body shared by the two one-sided branches; sentinel is -1 or 1
one_side_center(groups, height, sentinel) ==
    LET x_coords == x_coords_of(flatten(groups))
    IN  IF wide_enough(x_coords)
        THEN <<Rat(SeqMax(x_coords) + SeqMin(x_coords), 2), Rat(height, 2)>>
        ELSE <<RatInt(sentinel), RatInt(sentinel)>>

\* a faulty variant of max_line: the first member of the group
max_line_mut(group) == group[1]

\* max(group, key=lambda x: x[1]): the first member of maximal length
max_line(group) ==
    group[CHOOSE i \in 1..Len(group) :
            /\ \A j \in 1..Len(group) : group[j][2] <= group[i][2]
            /\ \A j \in 1..(i - 1) : group[j][2] < group[i][2]]

\* the two points.append of one loop, over all groups of one side
RECURSIVE group_points(_)
group_points(groups) ==
    IF groups = <<>> THEN <<>>
    ELSE LET line == max_line(groups[1])[3]
         IN  << <<line[1], line[2]>>, <<line[3], line[4]>> >> \o group_points(Tail(groups))

\* max(points, key=lambda point: point[0]): the first point of maximal x
max_point(pts) ==
    pts[CHOOSE i \in 1..Len(pts) :
            /\ \A j \in 1..Len(pts) : pts[j][1] <= pts[i][1]
            /\ \A j \in 1..(i - 1) : pts[j][1] < pts[i][1]]

\* min(points, key=lambda point: point[0]): the first point of minimal x
min_point(pts) ==
    pts[CHOOSE i \in 1..Len(pts) :
            /\ \A j \in 1..Len(pts) : pts[j][1] >= pts[i][1]
            /\ \A j \in 1..(i - 1) : pts[j][1] > pts[i][1]]

\* the end of detect_lane_center, from "if len(points) < 2"
center_of_points(pts) ==
    IF Len(pts) < 2 THEN <<None, None>>
    ELSE LET furthest_points == <<max_point(pts), min_point(pts)>>
         IN  <<Rat(furthest_points[1][1] + furthest_points[2][1], 2),
               Rat(furthest_points[1][2] + furthest_points[2][2], 2)>>

\* the locals of detect_lane_center when it returns, and the value it returns
detect_state(ls, height) ==
    IF ls = NoLines
    THEN [pos |-> <<>>, neg |-> <<>>, pg |-> <<>>, ng |-> <<>>, pts |-> <<>>,
          center |-> center_of_points(<<>>)]
    ELSE LET pos == positive_of(ls)
             neg == negative_of(ls)
             pg == group_lines(pos)
             ng == group_lines(neg)
         IN  IF pg = <<>> /\ ng # <<>>
             THEN [pos |-> pos, neg |-> neg, pg |-> pg, ng |-> ng, pts |-> <<>>,
                   center |-> one_side_center(ng, height, -1)]
             ELSE IF ng = <<>> /\ pg # <<>>
             THEN [pos |-> pos, neg |-> neg, pg |-> pg, ng |-> ng, pts |-> <<>>,
                   center |-> one_side_center(pg, height, 1)]
             ELSE LET pts == group_points(pg) \o group_points(ng)
                  IN  [pos |-> pos, neg |-> neg, pg |-> pg, ng |-> ng, pts |-> pts,
                       center |-> center_of_points(pts)]

detect_lane_center(ls, height) == detect_state(ls, height).center

-----------------------------------------------------------------------------
(* calculate_steering_angle *)

\* a faulty variant of deviation_of: the image width in place of its half
deviation_mut(width, lane_center_x) == RatSub(lane_center_x, RatInt(width))

\* deviation = lane_center_x - image_width / 2
deviation_of(width, lane_center_x) == RatSub(lane_center_x, Rat(width, 2))

calculate_steering_angle(width, lane_center_x, max_angle) ==
    RatMul(RatDiv(deviation_of(width, lane_center_x), Rat(width, 2)), RatInt(max_angle))

(* draw_center_point: int() truncates toward zero *)
int(q) == IF q[1] >= 0 THEN q[1] \div q[2] ELSE -((-q[1]) \div q[2])

-----------------------------------------------------------------------------
(* main: the loop over the image files *)

NoFrame ==
    /\ lines = NoLines
    /\ image_height = 0
    /\ positive_slopes = <<>>
    /\ negative_slopes = <<>>
    /\ positive_groups = <<>>
    /\ negative_groups = <<>>
    /\ points = <<>>
    /\ center_lane = <<None, None>>
    /\ steering_angle = None
    /\ drawn_center = None

NoCall == sw = 0 /\ sx = None /\ sm = 0 /\ sa = None

Init ==
    /\ pc = "read"
    /\ NoFrame
    /\ NoCall

\* read_image, preprocess_image and the image processing of detect_lane_center up
\* to cv2.HoughLinesP: the frame is what they make of it
ReadImage ==
    /\ pc = "read"
    /\ \E ls \in LineInputs, h \in ImageHeights :
          /\ lines' = ls
          /\ image_height' = h
    /\ pc' = "detect"
    /\ UNCHANGED <<positive_slopes, negative_slopes, positive_groups,
                   negative_groups, points, center_lane, steering_angle, drawn_center,
                   sw, sx, sm, sa>>

\* detect_lane_center from "points = []" to its return
DetectLaneCenter ==
    /\ pc = "detect"
    /\ LET d == detect_state(lines, image_height)
       IN  /\ positive_slopes' = d.pos
           /\ negative_slopes' = d.neg
           /\ positive_groups' = d.pg
           /\ negative_groups' = d.ng
           /\ points' = d.pts
           /\ center_lane' = d.center
    /\ pc' = "steer"
    /\ UNCHANGED <<lines, image_height, steering_angle, drawn_center,
                   sw, sx, sm, sa>>

\* steering_angle = calculate_steering_angle(image_width, center_lane_x, max_steering_angle);
\* None - 157.5 raises TypeError, which nothing in main catches
SteeringAngle ==
    /\ pc = "steer"
    /\ IF center_lane[1] = None
       THEN /\ pc' = "TypeError"
            /\ UNCHANGED steering_angle
       ELSE /\ steering_angle' =
                   calculate_steering_angle(image_width, center_lane[1], max_steering_angle)
            /\ pc' = "draw"
    /\ UNCHANGED <<lines, image_height, positive_slopes, negative_slopes,
                   positive_groups, negative_groups, points, center_lane, drawn_center,
                   sw, sx, sm, sa>>

\* draw_center_point
DrawCenterPoint ==
    /\ pc = "draw"
    /\ drawn_center' = <<int(center_lane[1]), int(center_lane[2])>>
    /\ pc' = "show"
    /\ UNCHANGED <<lines, image_height, positive_slopes, negative_slopes,
                   positive_groups, negative_groups, points, center_lane, steering_angle,
                   sw, sx, sm, sa>>

\* plt.show() and the step to the next image file; the locals of the iteration go
ShowImage ==
    /\ pc = "show"
    /\ pc' = "read"
    /\ lines' = NoLines
    /\ image_height' = 0
    /\ positive_slopes' = <<>>
    /\ negative_slopes' = <<>>
    /\ positive_groups' = <<>>
    /\ negative_groups' = <<>>
    /\ points' = <<>>
    /\ center_lane' = <<None, None>>
    /\ steering_angle' = None
    /\ drawn_center' = None
    /\ UNCHANGED <<sw, sx, sm, sa>>

\* the for loop has no image file left.  The folder may hold any number of image
\* files: at "read" the loop either takes the next one or ends
Finish ==
    /\ pc = "read"
    /\ pc' = "done"
    /\ UNCHANGED <<lines, image_height, positive_slopes, negative_slopes,
                   positive_groups, negative_groups, points, center_lane, steering_angle,
                   drawn_center, sw, sx, sm, sa>>

Next ==
    \/ ReadImage
    \/ DetectLaneCenter
    \/ SteeringAngle
    \/ DrawCenterPoint
    \/ ShowImage
    \/ Finish

Spec == Init /\ [][Next]_vars

-----------------------------------------------------------------------------
(* calculate_steering_angle on its own, on arguments drawn from small sets *)

Widths == (1..MaxWidth) \cup {image_width}

MaxAngles == {0, 1, max_steering_angle}

\* lane_center_x is CenterNums / 2: every half-integer from -1 to width + 1 for the
\* small widths, the ends and the middle for the width main uses
CenterNums(width) ==
    IF width <= MaxWidth THEN -2..(2 * width + 2)
    ELSE {-2, 0, 1, width - 1, width, width + 1, 2 * width - 1, 2 * width, 2 * width + 2}

InitSteer ==
    /\ pc = "call"
    /\ NoFrame
    /\ sw \in Widths
    /\ sx \in {Rat(n, 2) : n \in CenterNums(sw)}
    /\ sm \in MaxAngles
    /\ sa = None

SteerCall ==
    /\ pc = "call"
    /\ sa' = calculate_steering_angle(sw, sx, sm)
    /\ pc' = "returned"
    /\ UNCHANGED <<lines, image_height, positive_slopes, negative_slopes,
                   positive_groups, negative_groups, points, center_lane, steering_angle,
                   drawn_center, sw, sx, sm>>

NextSteer == SteerCall

SpecSteer == InitSteer /\ [][NextSteer]_vars

-----------------------------------------------------------------------------
(* What the properties below speak of, stated on the segments themselves *)

\* detect_lane_center has returned and main has not yet used the result
Returned == pc = "steer"

Survives(line) == line[3] # line[1] /\ line[4] # line[2]

Rising(line) == (line[4] - line[2]) * (line[3] - line[1]) > 0

Falling(line) == (line[4] - line[2]) * (line[3] - line[1]) < 0

HasLines == lines # NoLines

SomeRising == HasLines /\ \E i \in 1..Len(lines) : Rising(lines[i])

SomeFalling == HasLines /\ \E i \in 1..Len(lines) : Falling(lines[i])

SetMax(S) == CHOOSE m \in S : \A x \in S : x <= m

SetMin(S) == CHOOSE m \in S : \A x \in S : x >= m

SqLen(line) ==
    (line[3] - line[1]) * (line[3] - line[1]) + (line[4] - line[2]) * (line[4] - line[2])

\* the representatives of a list of groups: per group, the first longest member
Representatives(groups) ==
    UNION { { groups[g][i][3] : i \in
                { i \in 1..Len(groups[g]) :
                    /\ \A j \in 1..Len(groups[g]) :
                          SqLen(groups[g][j][3]) <= SqLen(groups[g][i][3])
                    /\ \A j \in 1..(i - 1) :
                          SqLen(groups[g][j][3]) < SqLen(groups[g][i][3]) } } :
            g \in 1..Len(groups) }

Endpoints(segs) == { <<l[1], l[2]>> : l \in segs } \cup { <<l[3], l[4]>> : l \in segs }

-----------------------------------------------------------------------------
\* C1: when both a positive-slope and a negative-slope group exist, center_x is
\* (max x + min x) / 2 over the endpoints of the longest segment of every group of
\* both sides (first one winning a tie), and center_y is the mean of the y of an
\* endpoint of maximal x and an endpoint of minimal x.
C1_BothSidesMidpoint ==
    (Returned /\ positive_groups # <<>> /\ negative_groups # <<>>) =>
        LET E == Endpoints(Representatives(positive_groups)
                             \cup Representatives(negative_groups))
            hi == SetMax({p[1] : p \in E})
            lo == SetMin({p[1] : p \in E})
        IN  /\ { <<points[i][1], points[i][2]>> : i \in 1..Len(points) } = E
            /\ center_lane[1] = Rat(hi + lo, 2)
            /\ \E p \in E, q \in E :
                  /\ p[1] = hi
                  /\ q[1] = lo
                  /\ center_lane[2] = Rat(p[2] + q[2], 2)

\* a both-sides frame with a group whose first member is not its longest
C1_Witness ==
    /\ Returned
    /\ positive_groups # <<>>
    /\ negative_groups # <<>>
    /\ \E g \in 1..Len(positive_groups) :
          /\ Len(positive_groups[g]) >= 2
          /\ positive_groups[g][1][2] < positive_groups[g][2][2]
    /\ center_lane[1] # None

-----------------------------------------------------------------------------
\* the x of both endpoints of every segment of lines that Keep holds of
XsOf(Keep(_)) ==
    { lines[i][1] : i \in { i \in 1..Len(lines) : Keep(lines[i]) } }
        \cup { lines[i][3] : i \in { i \in 1..Len(lines) : Keep(lines[i]) } }

Span(S) == SetMax(S) - SetMin(S)

\* C2: when segments of only one slope sign survive, the x of both endpoints of all
\* of them are collected; a span above 400 gives ((max x + min x) / 2, height / 2),
\* a span of 400 or less gives (-1, -1) when the segments fall and (1, 1) when they
\* rise.
C2_OneSided ==
    /\ (Returned /\ SomeFalling /\ ~SomeRising) =>
          LET xs == XsOf(Falling)
          IN  center_lane =
                IF Span(xs) > 400
                THEN <<Rat(SetMax(xs) + SetMin(xs), 2), Rat(image_height, 2)>>
                ELSE <<RatInt(-1), RatInt(-1)>>
    /\ (Returned /\ SomeRising /\ ~SomeFalling) =>
          LET xs == XsOf(Rising)
          IN  center_lane =
                IF Span(xs) > 400
                THEN <<Rat(SetMax(xs) + SetMin(xs), 2), Rat(image_height, 2)>>
                ELSE <<RatInt(1), RatInt(1)>>

\* falling segments only, spanning x from 0 to 450: center x is 225
C2_Witness ==
    /\ Returned
    /\ SomeFalling
    /\ ~SomeRising
    /\ Len(lines) >= 2
    /\ SetMin(XsOf(Falling)) = 0
    /\ SetMax(XsOf(Falling)) = 450
    /\ center_lane = <<RatInt(225), Rat(image_height, 2)>>

-----------------------------------------------------------------------------
\* C3: detect_lane_center returns (None, None) exactly when no segment survives
\* classification (lines is None, empty, or holds only vertical and zero-slope
\* segments); with a surviving segment both coordinates are numbers, and in the
\* both-sides case at least two points were collected.
C3_NoneIffNothingSurvives ==
    Returned =>
        LET survivor == HasLines /\ \E i \in 1..Len(lines) : Survives(lines[i])
        IN  /\ (center_lane = <<None, None>>) <=> ~survivor
            /\ survivor => (center_lane[1] # None /\ center_lane[2] # None)
            /\ (SomeRising /\ SomeFalling) => Len(points) >= 2

\* a frame whose segments are all vertical or of slope zero
C3_Witness ==
    /\ Returned
    /\ HasLines
    /\ Len(lines) >= 2
    /\ \E i \in 1..Len(lines) : lines[i][3] = lines[i][1]
    /\ \E i \in 1..Len(lines) : lines[i][4] = lines[i][2]
    /\ center_lane = <<None, None>>

-----------------------------------------------------------------------------
ScenarioLines == << <<400, 500, 300, 100>>, <<0, 100, 100, 500>> >>

\* C4, as claimed: on the two segments (400,500,300,100) and (0,100,100,500) the
\* points (400,500), (300,100), (0,100), (100,500) are collected and the lane
\* center is (200, 300).
C4_AsClaimed ==
    (Returned /\ lines = ScenarioLines) =>
        /\ points = << <<400, 500>>, <<300, 100>>, <<0, 100>>, <<100, 500>> >>
        /\ center_lane = <<RatInt(200), RatInt(300)>>

\* C4, amended: both segments of the scenario have slope 4, so only positive-slope
\* groups exist; their x span 0 to 400, which does not exceed 400, no point is
\* collected and the result is the sentinel (1, 1).
C4_ScenarioIsPositiveOnly ==
    (Returned /\ lines = ScenarioLines) =>
        /\ negative_slopes = <<>>
        /\ Len(positive_slopes) = 2
        /\ \A i \in 1..2 : positive_slopes[i][1] = RatInt(4)
        /\ points = <<>>
        /\ center_lane = <<RatInt(1), RatInt(1)>>

\* the scenario's frame, for which a numeric pair is returned
C4_Witness ==
    /\ Returned
    /\ lines = ScenarioLines
    /\ center_lane[1] # None

-----------------------------------------------------------------------------
\* C5: for every numeric lane center that detect_lane_center returns for a frame
\* whose segment endpoints have x in [0, image_width], the steering angle lies in
\* [-max_steering_angle, max_steering_angle].
C5_AngleInRange ==
    (/\ pc = "draw"
     /\ HasLines
     /\ \A i \in 1..Len(lines) :
           /\ 0 <= lines[i][1] /\ lines[i][1] <= image_width
           /\ 0 <= lines[i][3] /\ lines[i][3] <= image_width) =>
        /\ RatLeq(RatInt(-max_steering_angle), steering_angle)
        /\ RatLeq(steering_angle, RatInt(max_steering_angle))

-----------------------------------------------------------------------------
\* C9: nothing is surfaced as a hard failure: whatever detect_lane_center returns,
\* the frame's sequence in main runs on, and no exception ends the batch.
C9_NoHardFailure == pc # "TypeError"

-----------------------------------------------------------------------------
\* C6: calculate_steering_angle returns
\* (lane_center_x - width / 2) / (width / 2) * max_angle for every width > 0: 0 at
\* width / 2, max_angle at width, -max_angle at 0 (width 315, max 70: 157.5 -> 0,
\* 315 -> 70, 0 -> -70), and strictly more for a larger lane_center_x when
\* max_angle > 0.
C6_SteeringFormula ==
    pc = "returned" =>
        /\ RatMul(sa, RatInt(sw)) = RatMul(RatInt(sm), RatSub(RatMul(RatInt(2), sx), RatInt(sw)))
        /\ sx = Rat(sw, 2) => sa = RatInt(0)
        /\ sx = RatInt(sw) => sa = RatInt(sm)
        /\ sx = RatInt(0) => sa = RatInt(-sm)
        /\ (sw = 315 /\ sm = 70 /\ sx = <<315, 2>>) => sa = <<0, 1>>
        /\ (sw = 315 /\ sm = 70 /\ sx = <<315, 1>>) => sa = <<70, 1>>
        /\ (sw = 315 /\ sm = 70 /\ sx = <<0, 1>>) => sa = <<-70, 1>>
        /\ sm > 0 =>
              \A n \in CenterNums(sw) :
                  RatLess(Rat(n, 2), sx) =>
                      RatLess(calculate_steering_angle(sw, Rat(n, 2), sm), sa)

\* the call of main's example: width 315, maximum 70, lane center at the right edge
C6_Witness ==
    /\ pc = "returned"
    /\ sw = 315
    /\ sm = 70
    /\ sx = RatInt(315)
    /\ sa = RatInt(70)

-----------------------------------------------------------------------------
(* Grouping, seen from the result: one side's classified list and its groups *)

\* the group that holds position k of the flattened groups
RECURSIVE GroupAt(_, _)
GroupAt(groups, k) ==
    IF k <= Len(groups[1]) THEN 1 ELSE 1 + GroupAt(Tail(groups), k - Len(groups[1]))

\* |slope a - slope b| < 3/10, on the coordinates
SlopesNear(a, b) ==
    LET dxa == a[3] - a[1]
        dya == a[4] - a[2]
        dxb == b[3] - b[1]
        dyb == b[4] - b[2]
    IN  10 * Abs(dya * dxb - dyb * dxa) < 3 * Abs(dxa * dxb)

\* the midpoints are less than 90 apart, on the coordinates
MidpointsNear(a, b) ==
    LET ex == (a[1] + a[3]) - (b[1] + b[3])
        ey == (a[2] + a[4]) - (b[2] + b[4])
    IN  ex * ex + ey * ey < 4 * 90 * 90

AdjacentRule(groups) ==
    LET flat == flatten(groups)
    IN  \A k \in 1..(Len(flat) - 1) :
            (GroupAt(groups, k) = GroupAt(groups, k + 1)) <=>
                (SlopesNear(flat[k][3], flat[k + 1][3])
                    /\ MidpointsNear(flat[k][3], flat[k + 1][3]))

\* C8: two elements adjacent in the sorted order are in the same group if and only
\* if their slopes differ by less than 0.3 and their midpoints are less than 90
\* apart; so consecutive members of a group satisfy both thresholds.
C8_GreedyChain ==
    Returned => (AdjacentRule(positive_groups) /\ AdjacentRule(negative_groups))

\* a group of three whose first and last member satisfy neither threshold of
\* their own: midpoints 90 or more apart
C8_Witness ==
    /\ Returned
    /\ \E g \in 1..Len(positive_groups) :
          /\ Len(positive_groups[g]) = 3
          /\ ~MidpointsNear(positive_groups[g][1][3], positive_groups[g][3][3])

-----------------------------------------------------------------------------
Ascending(flat) ==
    \A k \in 1..(Len(flat) - 1) : RatLeq(flat[k][1], flat[k + 1][1])

\* flat holds the elements of input, those of equal slope in the order of input
StablePermutation(input, flat) ==
    /\ Len(flat) = Len(input)
    /\ \A i \in 1..Len(input) :
          SelectSeq(flat, LAMBDA e : e[1] = input[i][1])
              = SelectSeq(input, LAMBDA e : e[1] = input[i][1])

GroupsOf(input, groups) ==
    /\ \A g \in 1..Len(groups) : groups[g] # <<>>
    /\ Ascending(flatten(groups))
    /\ StablePermutation(input, flatten(groups))
    /\ (input = <<>>) => (groups = <<>>)
    /\ group_lines(flatten(groups)) = groups

\* C10: the groups group_lines returns are non-empty and their concatenation is
\* the input stably sorted ascending by slope; the empty list gives no group; and
\* group_lines on the flattened output returns the same groups.
C10_GroupsPartitionSortedInput ==
    Returned =>
        /\ GroupsOf(positive_slopes, positive_groups)
        /\ GroupsOf(negative_slopes, negative_groups)

\* three rising segments, two of them different segments of equal slope, that the
\* sort has to reorder
C10_Witness ==
    /\ Returned
    /\ Len(positive_slopes) = 3
    /\ flatten(positive_groups) # positive_slopes
    /\ \E i \in 1..3, j \in 1..3 :
          /\ i < j
          /\ positive_slopes[i][1] = positive_slopes[j][1]
          /\ positive_slopes[i][3] # positive_slopes[j][3]

-----------------------------------------------------------------------------
(* The same segments in another order *)

Reorderings(ls) ==
    { [i \in 1..Len(ls) |-> ls[f[i]]] :
        f \in { f \in [1..Len(ls) -> 1..Len(ls)] :
                  \A i \in 1..Len(ls), j \in 1..Len(ls) : f[i] = f[j] => i = j } }

\* the lane center of a list of segments and the steering angle main derives from it
Outcome(ls) ==
    LET center == detect_lane_center(ls, image_height)
    IN  <<center,
          IF center[1] = None THEN None
          ELSE calculate_steering_angle(image_width, center[1], max_steering_angle)>>

\* no two surviving segments of lines have the same slope
DistinctSlopes ==
    \A i \in 1..Len(lines), j \in 1..Len(lines) :
        (i # j /\ Survives(lines[i]) /\ Survives(lines[j])) =>
            (lines[i][4] - lines[i][2]) * (lines[j][3] - lines[j][1])
                # (lines[j][4] - lines[j][2]) * (lines[i][3] - lines[i][1])

\* what main has in hand for the frame: the lane center detect_lane_center
\* returned and the steering angle that follows from it
Result ==
    <<center_lane,
      IF center_lane[1] = None THEN None
      ELSE calculate_steering_angle(image_width, center_lane[1], max_steering_angle)>>

\* C7, as claimed: the same set of segments listed in any order, with the same
\* image height, width and maximum angle, gives the same lane center and the same
\* steering angle.
C7_AsClaimed ==
    (Returned /\ HasLines) =>
        \A other \in Reorderings(lines) : Outcome(other) = Result

\* C7, amended: the same segments listed in any order give the same lane center
\* and steering angle when at most one slope sign survives classification, or
\* when no two surviving segments have the same slope.
C7_OrderIndependentWithoutTies ==
    (Returned /\ HasLines /\ (DistinctSlopes \/ ~(SomeRising /\ SomeFalling))) =>
        \A other \in Reorderings(lines) : Outcome(other) = Result

\* a both-sides frame of three segments of three slopes, listed out of slope order
C7_Witness ==
    /\ Returned
    /\ SomeRising
    /\ SomeFalling
    /\ DistinctSlopes
    /\ Len(positive_slopes) + Len(negative_slopes) = 3
    /\ flatten(positive_groups) # positive_slopes
    /\ center_lane[1] # None

=============================================================================
